---- MODULE Spec2Model ----
(***************************************************************************)
(* Model of src/src/parse_citations.py: the extraction of citation records *)
(* from GROBID TEI documents (parse_citations_from_xml) and their          *)
(* accumulation over a directory of documents (parse_all_xml_files).       *)
(*                                                                         *)
(* Representation.                                                         *)
(*  - A Python str is a sequence of one-character strings.                 *)
(*  - An Optional[str] is a record [isNone, s]; an Optional[int] is a      *)
(*    record [isNone, n].                                                  *)
(*  - The result of find()/findall() on an element is modelled by the      *)
(*    sequence, in document order, of the elements in the scope of the     *)
(*    query; find() is the first element of the sequence that matches and  *)
(*    "is None" is the empty selection.                                    *)
(*  - The character data of an element is [text, rest]: text is            *)
(*    element.text (<<>> when it is None or ''), rest is the concatenation *)
(*    of what itertext() yields after element.text (the text and tails of  *)
(*    the descendants).                                                    *)
(***************************************************************************)
EXTENDS Integers, Sequences, FiniteSets, TLC

(***************************************************************************)
(* Bounds of the model.                                                    *)
(***************************************************************************)
\* documents in the input directory (batch specification)
MaxDocs == 3
\* biblStruct fragments per document (batch specification)
MaxFrags == 3
\* title elements enumerated in one analytic or monogr section
MaxTitles == 2
\* author elements enumerated in one analytic section
MaxAuthors == 2
\* forename elements enumerated in one persName
MaxForenames == 2
\* length of the enumerated values of the `when` attribute
MaxWhenLen == 4
\* length of the enumerated visible date texts
MaxTextLen == 5

(***************************************************************************)
(* Strings.                                                                *)
(***************************************************************************)
Whitespace == {" "}

Digits == {"0", "1", "2", "3", "4", "5", "6", "7", "8", "9"}

Letters == {"a", "b", "c", "x", "A", "B", "S", "T"}

DigitVal(c) ==
    CASE c = "0" -> 0 [] c = "1" -> 1 [] c = "2" -> 2 [] c = "3" -> 3
      [] c = "4" -> 4 [] c = "5" -> 5 [] c = "6" -> 6 [] c = "7" -> 7
      [] c = "8" -> 8 [] c = "9" -> 9

\* all strings over alphabet A of length at most n
RECURSIVE StringsUpTo(_, _)
StringsUpTo(A, n) ==
    IF n = 0 THEN {<<>>}
    ELSE LET shorter == StringsUpTo(A, n - 1)
         IN  shorter \cup {Append(s, c) : s \in shorter, c \in A}

\* all sequences over set S of length at most n
RECURSIVE SeqsUpTo(_, _)
SeqsUpTo(S, n) ==
    IF n = 0 THEN {<<>>}
    ELSE LET shorter == SeqsUpTo(S, n - 1)
         IN  shorter \cup {Append(s, x) : s \in shorter, x \in S}

\* s[:n]
Take(s, n) == SubSeq(s, 1, IF Len(s) < n THEN Len(s) ELSE n)

RECURSIVE LStrip(_)
LStrip(s) ==
    IF s # <<>> /\ Head(s) \in Whitespace THEN LStrip(Tail(s)) ELSE s

RECURSIVE RStrip(_)
RStrip(s) ==
    IF s # <<>> /\ s[Len(s)] \in Whitespace
    THEN RStrip(SubSeq(s, 1, Len(s) - 1))
    ELSE s

\* str.strip()
Strip(s) == RStrip(LStrip(s))

\* Optional[str]
None == [isNone |-> TRUE, s |-> <<>>]

Str(s) == [isNone |-> FALSE, s |-> s]

\* truth value of an Optional[str]: None and '' are false
Truthy(o) == ~o.isNone /\ o.s # <<>>

\* Optional[int]
NoYear == [isNone |-> TRUE, n |-> 0]

Year(n) == [isNone |-> FALSE, n |-> n]

\* the character data of an element
Content(text, rest) == [text |-> text, rest |-> rest]

extract_text(element) ==
    IF element.text # <<>> THEN Str(Strip(element.text)) ELSE None

extract_all_text(element) == Strip(element.text \o element.rest)

(***************************************************************************)
(* int(str) of Python: surrounding whitespace is ignored, one sign is      *)
(* allowed, and the digits may be separated by single underscores.  The    *)
(* result is NoYear where int() raises ValueError.                         *)
(***************************************************************************)
IntBodyValid(b) ==
    /\ b # <<>>
    /\ b[1] \in Digits
    /\ b[Len(b)] \in Digits
    /\ \A j \in 1..Len(b) : b[j] \in Digits \cup {"_"}
    /\ \A j \in 1..(Len(b) - 1) : ~(b[j] = "_" /\ b[j + 1] = "_")

RECURSIVE IntBodyValue(_, _)
IntBodyValue(b, acc) ==
    IF b = <<>> THEN acc
    ELSE IF Head(b) = "_" THEN IntBodyValue(Tail(b), acc)
    ELSE IntBodyValue(Tail(b), 10 * acc + DigitVal(Head(b)))

PyInt(s) ==
    LET t    == Strip(s)
        sign == IF t # <<>> /\ Head(t) \in {"+", "-"} THEN Head(t) ELSE ""
        body == IF sign = "" THEN t ELSE Tail(t)
    IN  IF ~IntBodyValid(body) THEN NoYear
        ELSE IF sign = "-" THEN Year(0 - IntBodyValue(body, 0))
        ELSE Year(IntBodyValue(body, 0))

(***************************************************************************)
(* re.search(r'\b(19|20)\d{2}\b', date_text): the leftmost match.           *)
(***************************************************************************)
WordChars == Digits \cup Letters \cup {"_"}

YearMatchAt(s, j) ==
    /\ j + 3 <= Len(s)
    /\ <<s[j], s[j + 1]>> \in {<<"1", "9">>, <<"2", "0">>}
    /\ s[j + 2] \in Digits
    /\ s[j + 3] \in Digits
    /\ (j = 1 \/ s[j - 1] \notin WordChars)
    /\ (j + 3 = Len(s) \/ s[j + 4] \notin WordChars)

re_search_year(s) ==
    LET hits == {j \in 1..Len(s) : YearMatchAt(s, j)}
    IN  IF hits = {} THEN NoYear
        ELSE LET j == CHOOSE m \in hits : \A o \in hits : m <= o
             IN  PyInt(SubSeq(s, j, j + 3))

(***************************************************************************)
(* Elements.                                                               *)
(*   title   : [type, level, content]   ("" for an attribute not given)    *)
(*   author  : [persName : Seq(persName)]                                  *)
(*   persName: [forenames : Seq(content), surname : Seq(content)]          *)
(*   analytic: [titles : Seq(title), authors : Seq(author)]                *)
(*   monogr  : [titles : Seq(title), meeting : Seq(content)]               *)
(*   date    : [type, when : Optional str, content]                        *)
(*   imprint : [dates : Seq(date)]                                         *)
(*   biblStruct: [analytic : Seq(analytic), monogr : Seq(monogr),          *)
(*                imprint : Seq(imprint), fault : BOOLEAN]                 *)
(* fault says that processing the fragment raises an exception other than  *)
(* ET.ParseError somewhere between lines 57 and 164.                       *)
(***************************************************************************)
Title(type, level, content) ==
    [type |-> type, level |-> level, content |-> content]

PersName(forenames, surname) ==
    [forenames |-> forenames, surname |-> surname]

Author(persName) == [persName |-> persName]

Analytic(titles, authors) == [titles |-> titles, authors |-> authors]

Monogr(titles, meeting) == [titles |-> titles, meeting |-> meeting]

Date(type, when, content) ==
    [type |-> type, when |-> when, content |-> content]

Imprint(dates) == [dates |-> dates]

BiblStruct(analytic, monogr, imprint, fault) ==
    [analytic |-> analytic, monogr |-> monogr, imprint |-> imprint,
     fault |-> fault]

\* Element.find() with an attribute predicate [@attr="value"]: the first
\* element in scope that matches, as a sequence of length 1, or <<>> for
\* None
find(elems, attr, value) ==
    LET Match(e) == e[attr] = value
        hits     == SelectSeq(elems, Match)
    IN  IF hits = <<>> THEN <<>> ELSE <<Head(hits)>>

\* Element.find() without predicate: the first element in scope
find_first(elems) == IF elems = <<>> THEN <<>> ELSE <<Head(elems)>>

(***************************************************************************)
(* Title, lines 64-72 and 95-104.                                          *)
(***************************************************************************)
\* lines 67-70 with the two queries in the other order
analytic_title_level_first(biblStruct) ==
    LET analytic == find_first(biblStruct.analytic)
    IN  IF analytic = <<>> THEN None
        ELSE LET lev        == find(analytic[1].titles, "level", "a")
                 title_elem == IF lev = <<>>
                               THEN find(analytic[1].titles, "type", "main")
                               ELSE lev
             IN  IF title_elem = <<>> THEN None
                 ELSE Str(extract_all_text(title_elem[1].content))

\* citation['title'] after the analytic section has been read
analytic_title(biblStruct) ==
    LET analytic == find_first(biblStruct.analytic)
    IN  IF analytic = <<>> THEN None
        ELSE LET main       == find(analytic[1].titles, "type", "main")
                 title_elem == IF main = <<>>
                               THEN find(analytic[1].titles, "level", "a")
                               ELSE main
             IN  IF title_elem = <<>> THEN None
                 ELSE Str(extract_all_text(title_elem[1].content))

\* citation['title'] after the monogr fallback
resolve_title(biblStruct) ==
    LET title  == analytic_title(biblStruct)
        monogr == find_first(biblStruct.monogr)
    IN  IF Truthy(title) \/ monogr = <<>> THEN title
        ELSE LET main       == find(monogr[1].titles, "type", "main")
                 title_elem == IF main = <<>>
                               THEN find(monogr[1].titles, "level", "m")
                               ELSE main
             IN  IF title_elem = <<>> THEN title
                 ELSE Str(extract_all_text(title_elem[1].content))

(***************************************************************************)
(* Authors, lines 74-93.                                                   *)
(***************************************************************************)
RECURSIVE Join(_, _)
Join(parts, sep) ==
    IF parts = <<>> THEN <<>>
    ELSE IF Len(parts) = 1 THEN parts[1]
    ELSE parts[1] \o sep \o Join(Tail(parts), sep)

\* the forenames list of lines 79-83
RECURSIVE collect_forenames(_)
collect_forenames(elems) ==
    IF elems = <<>> THEN <<>>
    ELSE LET fn_text == extract_text(Head(elems))
         IN  (IF Truthy(fn_text) THEN <<fn_text.s>> ELSE <<>>)
                 \o collect_forenames(Tail(elems))

\* line 90 with the surname put first
author_entry_surname_first(author) ==
    LET pers_name == find_first(author.persName)
    IN  IF pers_name = <<>> THEN <<>>
        ELSE LET forenames    == collect_forenames(pers_name[1].forenames)
                 surname_elem == find_first(pers_name[1].surname)
                 surname      == IF surname_elem = <<>> THEN None
                                 ELSE extract_text(surname_elem[1])
             IN  IF forenames # <<>> /\ Truthy(surname)
                 THEN <<surname.s \o <<" ">> \o Join(forenames, <<" ">>)>>
                 ELSE IF Truthy(surname) THEN <<surname.s>>
                 ELSE <<>>

\* what one author element appends to citation['authors']
author_entry(author) ==
    LET pers_name == find_first(author.persName)
    IN  IF pers_name = <<>> THEN <<>>
        ELSE LET forenames    == collect_forenames(pers_name[1].forenames)
                 surname_elem == find_first(pers_name[1].surname)
                 surname      == IF surname_elem = <<>> THEN None
                                 ELSE extract_text(surname_elem[1])
             IN  IF forenames # <<>> /\ Truthy(surname)
                 THEN <<Join(forenames, <<" ">>) \o <<" ">> \o surname.s>>
                 ELSE IF Truthy(surname) THEN <<surname.s>>
                 ELSE <<>>

RECURSIVE author_entries(_)
author_entries(authors) ==
    IF authors = <<>> THEN <<>>
    ELSE author_entry(Head(authors)) \o author_entries(Tail(authors))

resolve_authors(biblStruct) ==
    LET analytic == find_first(biblStruct.analytic)
    IN  IF analytic = <<>> THEN <<>>
        ELSE author_entries(analytic[1].authors)

(***************************************************************************)
(* Proceedings (venue), lines 106-129.  title is citation['title'] as      *)
(* resolved before.                                                        *)
(***************************************************************************)
\* line 113 reading the meeting with extract_all_text, address included
meeting_proceedings_all_text(monogr) ==
    LET meeting_elem == find_first(monogr.meeting)
    IN  IF meeting_elem = <<>> THEN None
        ELSE LET meeting_text == Str(extract_all_text(meeting_elem[1]))
             IN  IF Truthy(meeting_text) THEN meeting_text ELSE None

\* citation['proceedings'] after the meeting element has been read
meeting_proceedings(monogr) ==
    LET meeting_elem == find_first(monogr.meeting)
    IN  IF meeting_elem = <<>> THEN None
        ELSE LET meeting_text == extract_text(meeting_elem[1])
             IN  IF Truthy(meeting_text) THEN meeting_text ELSE None

\* line 128 without the comparison with the paper title
title_proceedings_no_dedup(monogr, title) ==
    LET journal_title == find(monogr.titles, "level", "j")
        proc_title    == find(monogr.titles, "level", "m")
    IN  IF journal_title # <<>>
        THEN Str(extract_all_text(journal_title[1].content))
        ELSE IF proc_title = <<>> THEN None
        ELSE LET proc_text == Str(extract_all_text(proc_title[1].content))
             IN  IF Truthy(proc_text) THEN proc_text ELSE None

\* lines 118-129: the journal title, else the proceedings title
title_proceedings(monogr, title) ==
    LET journal_title == find(monogr.titles, "level", "j")
        proc_title    == find(monogr.titles, "level", "m")
    IN  IF journal_title # <<>>
        THEN Str(extract_all_text(journal_title[1].content))
        ELSE IF proc_title = <<>> THEN None
        ELSE LET proc_text == Str(extract_all_text(proc_title[1].content))
             IN  IF Truthy(proc_text) /\ proc_text # title
                 THEN proc_text
                 ELSE None

resolve_proceedings(biblStruct, title) ==
    LET monogr == find_first(biblStruct.monogr)
    IN  IF monogr = <<>> THEN None
        ELSE LET proceedings == meeting_proceedings(monogr[1])
             IN  IF Truthy(proceedings) THEN proceedings
                 ELSE title_proceedings(monogr[1], title)

(***************************************************************************)
(* Year, lines 131-160.                                                    *)
(***************************************************************************)
\* lines 134-137: the date element the year is read from
select_date(imprint) ==
    LET published == find(imprint.dates, "type", "published")
    IN  IF published = <<>> THEN find_first(imprint.dates) ELSE published

\* lines 141-147: the year from the 'when' attribute
year_from_when(date_elem) ==
    LET year_attr == date_elem.when
    IN  IF Truthy(year_attr) THEN PyInt(Take(year_attr.s, 4)) ELSE NoYear

\* lines 151-160: the year from the text of the date element
year_from_text(date_elem) ==
    LET date_text == extract_text(date_elem.content)
    IN  IF Truthy(date_text) THEN re_search_year(date_text.s) ELSE NoYear

\* lines 141-160 with the text tried before the attribute
date_year_text_first(date_elem) ==
    LET year == year_from_text(date_elem)
    IN  IF year.isNone THEN year_from_when(date_elem) ELSE year

date_year(date_elem) ==
    LET year == year_from_when(date_elem)
    IN  IF year.isNone THEN year_from_text(date_elem) ELSE year

resolve_year(biblStruct) ==
    LET imprint == find_first(biblStruct.imprint)
    IN  IF imprint = <<>> THEN NoYear
        ELSE LET date_elem == select_date(imprint[1])
             IN  IF date_elem = <<>> THEN NoYear ELSE date_year(date_elem[1])

(***************************************************************************)
(* The citation dict built for one biblStruct, lines 57-160, and the test  *)
(* of line 163.                                                            *)
(***************************************************************************)
NewCitation ==
    [title |-> None, authors |-> <<>>, proceedings |-> None, year |-> NoYear]

\* lines 106-129 run before the monogr fallback of lines 95-104
build_citation_venue_first(biblStruct) ==
    LET title == resolve_title(biblStruct)
    IN  [title       |-> title,
         authors     |-> resolve_authors(biblStruct),
         proceedings |-> resolve_proceedings(biblStruct,
                                             analytic_title(biblStruct)),
         year        |-> resolve_year(biblStruct)]

build_citation(biblStruct) ==
    LET title == resolve_title(biblStruct)
    IN  [title       |-> title,
         authors     |-> resolve_authors(biblStruct),
         proceedings |-> resolve_proceedings(biblStruct, title),
         year        |-> resolve_year(biblStruct)]

\* line 163 testing "title is not None" instead of the truth value
has_title_or_authors_not_none(citation) ==
    ~citation.title.isNone \/ citation.authors # <<>>

has_title_or_authors(citation) ==
    Truthy(citation.title) \/ citation.authors # <<>>

(***************************************************************************)
(* Documents: a file of the input directory is well-formed XML holding a   *)
(* sequence of biblStruct fragments, or it is not well-formed.             *)
(***************************************************************************)
Document(fragments) == [wellFormed |-> TRUE, fragments |-> fragments]

Malformed == [wellFormed |-> FALSE, fragments |-> <<>>]

(***************************************************************************)
(* State.                                                                  *)
(*   xml_files     the documents of the input directory, in glob order     *)
(*   i             index of the document parse_all_xml_files is at         *)
(*   pc            position in the two functions                           *)
(*   k             fragments of the current document already iterated      *)
(*   citation      the dict of the loop body, as last built                *)
(*   citations     the list of parse_citations_from_xml                    *)
(*   all_citations the list of parse_all_xml_files                         *)
(***************************************************************************)
VARIABLES xml_files, i, pc, k, citation, citations, all_citations

vars == <<xml_files, i, pc, k, citation, citations, all_citations>>

InitState ==
    /\ i = 1
    /\ pc = "batch"
    /\ k = 0
    /\ citation = NewCitation
    /\ citations = <<>>
    /\ all_citations = <<>>

\* the biblStruct the loop of line 56 is about to take
current == xml_files[i].fragments[k + 1]

\* line 189, 191 and 44: the next file is handed to parse_citations_from_xml
CallParse ==
    /\ pc = "batch"
    /\ i <= Len(xml_files)
    /\ pc' = "parse"
    /\ k' = 0
    /\ citations' = <<>>
    /\ UNCHANGED <<xml_files, i, citation, all_citations>>

\* lines 48-49: ET.parse succeeds
ParseOk ==
    /\ pc = "parse"
    /\ xml_files[i].wellFormed
    /\ pc' = "loop"
    /\ UNCHANGED <<xml_files, i, k, citation, citations, all_citations>>

\* lines 48, 166-167: ET.parse raises ET.ParseError
ParseError ==
    /\ pc = "parse"
    /\ ~xml_files[i].wellFormed
    /\ pc' = "return"
    /\ UNCHANGED <<xml_files, i, k, citation, citations, all_citations>>

\* lines 56-164: one iteration of the loop that runs to its end
ProcessFragment ==
    /\ pc = "loop"
    /\ k < Len(xml_files[i].fragments)
    /\ ~current.fault
    /\ citation' = build_citation(current)
    /\ citations' = IF has_title_or_authors(citation')
                    THEN Append(citations, citation')
                    ELSE citations
    /\ k' = k + 1
    /\ UNCHANGED <<xml_files, i, pc, all_citations>>

\* lines 56-164, 168-169: an iteration raises; the handler is outside the
\* loop, so the loop is left
FragmentError ==
    /\ pc = "loop"
    /\ k < Len(xml_files[i].fragments)
    /\ current.fault
    /\ citation' = NewCitation
    /\ k' = k + 1
    /\ pc' = "return"
    /\ UNCHANGED <<xml_files, i, citations, all_citations>>

\* line 56: no biblStruct is left
LoopEnd ==
    /\ pc = "loop"
    /\ k = Len(xml_files[i].fragments)
    /\ pc' = "return"
    /\ UNCHANGED <<xml_files, i, k, citation, citations, all_citations>>

\* all_citations = citations in place of all_citations.extend(citations)
extend_overwrite(list, items) == items

\* the list all_citations.extend(citations) leaves
extend(list, items) == list \o items

\* lines 171 and 193: the list is returned and appended to all_citations
Return ==
    /\ pc = "return"
    /\ all_citations' = extend(all_citations, citations)
    /\ i' = i + 1
    /\ pc' = "batch"
    /\ UNCHANGED <<xml_files, k, citation, citations>>

\* lines 195-196: every file has been processed
Finish ==
    /\ pc = "batch"
    /\ i > Len(xml_files)
    /\ pc' = "done"
    /\ UNCHANGED <<xml_files, i, k, citation, citations, all_citations>>

Next ==
    \/ CallParse
    \/ ParseOk
    \/ ParseError
    \/ ProcessFragment
    \/ FragmentError
    \/ LoopEnd
    \/ Return
    \/ Finish

(***************************************************************************)
(* Inputs.                                                                 *)
(***************************************************************************)
\* character data: 'a' with leading whitespace, 'ab' split over nested
\* markup with trailing whitespace, and no text at all
TextA == Content(<<" ", "a">>, <<>>)

TextAB == Content(<<"a">>, <<"b", " ">>)

NoText == Content(<<>>, <<>>)

TitleContents == {NoText, TextA, TextAB}

AnalyticTitleElems ==
    {Title(ty, lv, c) : ty \in {"main", ""}, lv \in {"a", ""},
                        c \in TitleContents}

MonogrTitleElems ==
    {Title(ty, lv, c) : ty \in {"main", ""}, lv \in {"j", "m", ""},
                        c \in TitleContents}

\* a meeting element: without text but with an address child, and with text
MeetingSamples ==
    {<<>>, <<Content(<<>>, <<"x">>)>>, <<Content(<<"a", " ">>, <<"x">>)>>}

\* forename and surname elements
ForenameContents ==
    {NoText, Content(<<" ">>, <<>>), Content(<<"A", " ">>, <<"x">>),
     Content(<<"B">>, <<>>)}

SurnameSamples == {<<>>, <<NoText>>, <<Content(<<" ", "S">>, <<>>)>>}

AuthorAS == Author(<<PersName(<<Content(<<"A">>, <<>>)>>,
                              <<Content(<<"S">>, <<>>)>>)>>)

AuthorT == Author(<<PersName(<<>>, <<Content(<<"T">>, <<>>)>>)>>)

AuthorNoName == Author(<<PersName(<<Content(<<"A">>, <<>>)>>, <<>>)>>)

AuthorSamples == {AuthorAS, AuthorT, AuthorNoName, Author(<<>>)}

\* fragments for the title and venue rules
AnalyticSamples ==
    {<<>>,
     <<Analytic(<<Title("main", "a", TextA)>>, <<>>)>>,
     <<Analytic(<<Title("", "a", NoText)>>, <<AuthorAS>>)>>}

MonogrSamples ==
    {<<>>,
     <<Monogr(<<Title("main", "", TextA)>>, <<>>)>>,
     <<Monogr(<<Title("", "m", TextAB)>>, <<>>)>>,
     <<Monogr(<<Title("", "j", TextA)>>, <<Content(<<"a">>, <<>>)>>)>>}

\* n bounds the title elements of a section
TitleFragments(n) ==
    {BiblStruct(<<Analytic(ts, as)>>, m, <<>>, FALSE) :
        ts \in SeqsUpTo(AnalyticTitleElems, n),
        as \in {<<>>, <<AuthorAS>>},
        m \in MonogrSamples}
    \cup
    {BiblStruct(a, <<Monogr(ts, mt)>>, <<>>, FALSE) :
        a \in AnalyticSamples,
        ts \in SeqsUpTo(MonogrTitleElems, n),
        mt \in MeetingSamples}

\* fragments for the author rule: one author whose persName is enumerated,
\* and sequences of sample authors
AuthorFragments(nForenames, nAuthors) ==
    {BiblStruct(<<Analytic(<<>>, <<Author(<<PersName(fs, s)>>)>>)>>,
                <<>>, <<>>, FALSE) :
        fs \in SeqsUpTo(ForenameContents, nForenames),
        s \in SurnameSamples}
    \cup
    {BiblStruct(<<Analytic(<<>>, as)>>, <<>>, <<>>, FALSE) :
        as \in SeqsUpTo(AuthorSamples, nAuthors)}

\* fragments for the year rule
WhenChars == {"0", "1", "-", " ", "x"}

TextChars == {"1", "9", " ", "x"}

WhenSamples ==
    {None, Str(<<>>), Str(<<"x">>),
     Str(<<"2", "0", "1", "7", "-", "1", "2", "-", "0", "4">>),
     Str(<<"1", "_", "0", "0">>), Str(<<"+", "9", "9">>)}

DateTextSamples ==
    {NoText,
     Content(<<"1", "9", "9", "9">>, <<>>),
     Content(<<"I", "n", " ", "p", "r", "e", "s", "s", ",", " ",
               "2", "0", "2", "1">>, <<>>),
     Content(<<"x", "2", "0", "2", "1">>, <<>>),
     Content(<<>>, <<"2", "0", "2", "1">>)}

YearDates(nWhen, nText) ==
    {Date("", Str(w), c) : w \in StringsUpTo(WhenChars, nWhen),
                           c \in DateTextSamples}
    \cup
    {Date("", w, Content(s, <<>>)) :
        w \in {None, Str(<<"x">>)}, s \in StringsUpTo(TextChars, nText)}

DateSamples ==
    {Date(ty, w, c) : ty \in {"published", ""},
                      w \in {None, Str(<<"2", "0", "1", "7">>)},
                      c \in {NoText, Content(<<"1", "9", "9", "9">>, <<>>)}}

TitledAnalytic == <<Analytic(<<Title("main", "a", TextA)>>, <<>>)>>

YearFragments(nWhen, nText) ==
    {BiblStruct(TitledAnalytic, <<>>, <<Imprint(<<d>>)>>, FALSE) :
        d \in YearDates(nWhen, nText)}
    \cup
    {BiblStruct(TitledAnalytic, <<>>, <<Imprint(ds)>>, FALSE) :
        ds \in SeqsUpTo(DateSamples, 2)}
    \cup
    {BiblStruct(TitledAnalytic, <<>>, <<>>, FALSE)}

\* fragments for the loop over a document and for the batch
FragA == BiblStruct(TitledAnalytic, <<>>, <<>>, FALSE)

FragAB ==
    BiblStruct(<<Analytic(<<Title("", "a", TextAB)>>, <<AuthorAS>>)>>,
               <<Monogr(<<Title("", "j", TextA)>>, <<>>)>>,
               <<Imprint(<<Date("", Str(<<"2", "0", "1", "7">>), NoText)>>)>>,
               FALSE)

FragAuthors == BiblStruct(<<Analytic(<<>>, <<AuthorT>>)>>, <<>>, <<>>, FALSE)

FragEmpty == BiblStruct(<<>>, <<>>, <<>>, FALSE)

FragFault == BiblStruct(TitledAnalytic, <<>>, <<>>, TRUE)

FragmentSamples == {FragA, FragAB, FragAuthors, FragEmpty, FragFault}

DocSamples ==
    {Malformed,
     Document(<<>>),
     Document(<<FragA>>),
     Document(<<FragAB, FragFault, FragA>>),
     Document(<<FragEmpty, FragAuthors, FragAB>>)}

\* one document holding one fragment of F, a document that is not
\* well-formed, and one whose fragment raises
SingleFragmentRuns(F) ==
    {<<Document(<<f>>)>> : f \in F}
        \cup {<<Malformed>>, <<Document(<<FragFault>>)>>}

(***************************************************************************)
(* Specifications.                                                         *)
(***************************************************************************)
\* one document, every sequence of sample fragments
Init ==
    /\ xml_files \in {<<Document(fs)>> :
                          fs \in SeqsUpTo(FragmentSamples, MaxFrags)}
                     \cup {<<Malformed>>}
    /\ InitState

Spec == Init /\ [][Next]_vars

\* a directory of sample documents
InitBatch ==
    /\ xml_files \in SeqsUpTo(DocSamples, MaxDocs)
    /\ InitState

SpecBatch == InitBatch /\ [][Next]_vars

InitTitle ==
    /\ xml_files \in SingleFragmentRuns(TitleFragments(MaxTitles))
    /\ InitState

SpecTitle == InitTitle /\ [][Next]_vars

InitAuthor ==
    /\ xml_files \in
          SingleFragmentRuns(AuthorFragments(MaxForenames, MaxAuthors))
    /\ InitState

SpecAuthor == InitAuthor /\ [][Next]_vars

InitYear ==
    /\ xml_files \in SingleFragmentRuns(YearFragments(MaxWhenLen, MaxTextLen))
    /\ InitState

SpecYear == InitYear /\ [][Next]_vars

(***************************************************************************)
(* Properties.                                                             *)
(***************************************************************************)
\* the fragments of the current document
fragments == xml_files[i].fragments

\* a loop iteration has just run to its end: citation is the dict built
\* for fragments[k]
Processed == pc = "loop" /\ k >= 1

\* the index of the first element whose attribute attr is value, 0 when
\* there is none
FirstIdx(elems, attr, value) ==
    LET hits == {j \in 1..Len(elems) : elems[j][attr] = value}
    IN  IF hits = {} THEN 0 ELSE CHOOSE m \in hits : \A o \in hits : m <= o

NonEmpty(o) == ~o.isNone /\ Len(o.s) > 0

\* the records of the fragments that do not raise, in fragment order
RECURSIVE IsolatedRecords(_)
IsolatedRecords(fs) ==
    IF fs = <<>> THEN <<>>
    ELSE LET f == Head(fs)
             r == build_citation(f)
         IN  (IF ~f.fault /\ (NonEmpty(r.title) \/ Len(r.authors) > 0)
              THEN <<r>> ELSE <<>>) \o IsolatedRecords(Tail(fs))

\* C1: when parse_citations_from_xml returns for a well-formed document,
\* the list holds the record of every fragment that did not raise and has
\* a title or an author; a fragment that raises removes only itself.
C1_FragmentErrorIsolation ==
    (pc = "return" /\ xml_files[i].wellFormed)
        => citations = IsolatedRecords(fragments)

\* C2: every record of citations and of all_citations has a non-empty
\* title or a non-empty authors list, and the list holds exactly one
\* record per processed fragment that resolves to a title or an author.
C2_EmissionInvariant ==
    /\ \A j \in DOMAIN citations :
          NonEmpty(citations[j].title) \/ Len(citations[j].authors) > 0
    /\ \A j \in DOMAIN all_citations :
          NonEmpty(all_citations[j].title)
              \/ Len(all_citations[j].authors) > 0
    /\ pc = "loop" =>
          Len(citations) =
              Cardinality({j \in 1..k :
                  \/ NonEmpty(resolve_title(fragments[j]))
                  \/ Len(resolve_authors(fragments[j])) > 0})

\* C2 witness: a fragment whose title element is empty and that has no
\* author has been processed and no record was emitted.
C2_Witness ==
    /\ Processed
    /\ citation.title = Str(<<>>)
    /\ citation.authors = <<>>
    /\ citations = <<>>

\* what parse_citations_from_xml returns for a document: nothing when it is
\* not well-formed, else the records of the fragments before the first one
\* that raises
RECURSIVE RecordsUntilError(_)
RecordsUntilError(fs) ==
    IF fs = <<>> \/ Head(fs).fault THEN <<>>
    ELSE LET r == build_citation(Head(fs))
         IN  (IF NonEmpty(r.title) \/ Len(r.authors) > 0
              THEN <<r>> ELSE <<>>) \o RecordsUntilError(Tail(fs))

DocumentRecords(doc) ==
    IF doc.wellFormed THEN RecordsUntilError(doc.fragments) ELSE <<>>

RECURSIVE Concatenation(_)
Concatenation(docs) ==
    IF docs = <<>> THEN <<>>
    ELSE DocumentRecords(Head(docs)) \o Concatenation(Tail(docs))

\* C8: a document that is not well-formed contributes no record and does
\* not stop the run: after the documents before i, and at the end, the
\* batch output is the concatenation, in document order and fragment
\* order, of the records returned for each document, unchanged.
C8_BatchPartialResults ==
    /\ pc = "batch" =>
          all_citations = Concatenation(SubSeq(xml_files, 1, i - 1))
    /\ pc = "done" =>
          /\ i = Len(xml_files) + 1
          /\ all_citations = Concatenation(xml_files)
    /\ (pc = "return" /\ ~xml_files[i].wellFormed) => citations = <<>>

\* C8 witness: a run over three documents, the second not well-formed, the
\* first and the third with records, has ended.
C8_Witness ==
    /\ pc = "done"
    /\ Len(xml_files) = 3
    /\ xml_files[2] = Malformed
    /\ DocumentRecords(xml_files[1]) # <<>>
    /\ DocumentRecords(xml_files[3]) # <<>>
    /\ DocumentRecords(xml_files[1]) # DocumentRecords(xml_files[3])
    /\ all_citations =
          DocumentRecords(xml_files[1]) \o DocumentRecords(xml_files[3])

\* the fragment the last iteration processed
last == fragments[k]

AllText(title_elem) == Strip(title_elem.content.text \o title_elem.content.rest)

\* the text the analytic section offers as title: its first main-typed
\* title, else its first title of level a
AnalyticChoice(f) ==
    IF f.analytic = <<>> THEN None
    ELSE LET ts == f.analytic[1].titles
             a  == FirstIdx(ts, "type", "main")
             b  == FirstIdx(ts, "level", "a")
             j  == IF a > 0 THEN a ELSE b
         IN  IF j = 0 THEN None ELSE Str(AllText(ts[j]))

\* the index of the monogr title element the title falls back to
MonogrChoiceIdx(m) ==
    IF FirstIdx(m.titles, "type", "main") > 0
    THEN FirstIdx(m.titles, "type", "main")
    ELSE FirstIdx(m.titles, "level", "m")

\* the trimmed own text of the meeting element, '' without one
MeetingText(m) ==
    IF m.meeting = <<>> THEN <<>> ELSE Strip(m.meeting[1].text)

\* C3 as stated: in every emitted record where both are present, the venue
\* differs from the title, whichever rule produced it.
C3_VenueNeverTitle ==
    \A j \in DOMAIN citations :
        (~citations[j].title.isNone /\ ~citations[j].proceedings.isNone)
            => citations[j].proceedings # citations[j].title

\* C3 amended: when the venue is decided by the monograph-level title rule
\* (the monogr section has no meeting text and no journal-level title), it
\* is absent or differs from the title.
C3_VenueFromMonogrLevelDiffers ==
    (Processed /\ last.monogr # <<>>) =>
        LET m == last.monogr[1]
        IN  (MeetingText(m) = <<>> /\ FirstIdx(m.titles, "level", "j") = 0)
                => \/ citation.proceedings.isNone
                   \/ /\ citation.proceedings # citation.title
                      /\ FirstIdx(m.titles, "level", "m") > 0
                      /\ citation.proceedings.s =
                            AllText(m.titles[FirstIdx(m.titles, "level", "m")])

\* C3 witness: the monograph-level rule produced a venue next to a title,
\* and the record was emitted.
C3_Witness ==
    /\ Processed
    /\ last.monogr # <<>>
    /\ MeetingText(last.monogr[1]) = <<>>
    /\ FirstIdx(last.monogr[1].titles, "level", "j") = 0
    /\ NonEmpty(citation.title)
    /\ NonEmpty(citation.proceedings)
    /\ citations = <<citation>>

\* C4 as stated: a fragment with a main-typed and a level-typed analytic
\* title resolves to the text of the main-typed one.
C4_MainTypedAnalyticTitleWins ==
    (Processed /\ last.analytic # <<>>) =>
        LET ts == last.analytic[1].titles
            a  == FirstIdx(ts, "type", "main")
            b  == FirstIdx(ts, "level", "a")
        IN  (a > 0 /\ b > 0) => citation.title = Str(AllText(ts[a]))

\* C4 amended: the title is the text of the first main-typed analytic
\* title, else of the first analytic title of level a, whenever that text
\* is not empty; when the analytic section offers no title or an empty
\* one, the title is the text of the first main-typed monogr title, else
\* of the first monogr title of level m, and without such an element it is
\* what the analytic section offered.
C4_TitleResolutionOrder ==
    Processed =>
        LET ac == AnalyticChoice(last)
        IN  IF NonEmpty(ac) THEN citation.title = ac
            ELSE IF last.monogr = <<>> THEN citation.title = ac
            ELSE LET m == last.monogr[1]
                     j == MonogrChoiceIdx(m)
                 IN  IF j = 0 THEN citation.title = ac
                     ELSE citation.title = Str(AllText(m.titles[j]))

\* C4 witness: the analytic section holds a title of level a and, after
\* it, a main-typed title with another text; the record has the text of
\* the main-typed one.
C4_Witness ==
    /\ Processed
    /\ last.analytic # <<>>
    /\ last.analytic[1].titles =
          <<Title("", "a", TextAB), Title("main", "", TextA)>>
    /\ last.monogr # <<>>
    /\ citation.title = Str(<<"a">>)
    /\ citations = <<citation>>

\* C5 as stated: the first rule whose element is present decides the
\* venue; with a meeting element the venue is the meeting text and the
\* title rules are not tried.
C5_MeetingElementDecides ==
    (Processed /\ last.monogr # <<>>) =>
        LET m == last.monogr[1]
        IN  m.meeting # <<>> =>
                citation.proceedings \in {None, Str(MeetingText(m))}

\* C5 amended: the venue is read from the monogr section alone: it is the
\* trimmed own text of the meeting element when that text is not empty;
\* else the text of the first journal-level title when there is one, empty
\* or not; else the text of the first title of level m when it is not
\* empty and differs from the title; else absent.
C5_VenueResolutionOrder ==
    Processed =>
        IF last.monogr = <<>> THEN citation.proceedings = None
        ELSE LET m  == last.monogr[1]
                 mt == MeetingText(m)
                 j  == FirstIdx(m.titles, "level", "j")
                 pm == FirstIdx(m.titles, "level", "m")
             IN  IF Len(mt) > 0 THEN citation.proceedings = Str(mt)
                 ELSE IF j > 0
                 THEN citation.proceedings = Str(AllText(m.titles[j]))
                 ELSE IF /\ pm > 0
                         /\ Len(AllText(m.titles[pm])) > 0
                         /\ Str(AllText(m.titles[pm])) # citation.title
                 THEN citation.proceedings = Str(AllText(m.titles[pm]))
                 ELSE citation.proceedings = None

\* C5 witness: a monogr section with a meeting text, a journal-level title
\* and a title of level m, all different; the venue is the meeting text.
C5_Witness ==
    /\ Processed
    /\ last.monogr # <<>>
    /\ MeetingText(last.monogr[1]) = <<"a">>
    /\ last.monogr[1].titles =
          <<Title("", "m", NoText), Title("", "j", TextAB)>>
    /\ citation.proceedings = Str(<<"a">>)

\* C10: with no meeting element and no journal-level title, when the
\* title falls back to the monogr section and the element it is read from
\* is the first title of level m, the venue is absent and the title is
\* the text of that element.
C10_DedupRule ==
    (Processed /\ last.monogr # <<>>) =>
        LET m == last.monogr[1]
            j == MonogrChoiceIdx(m)
        IN  (/\ m.meeting = <<>>
             /\ FirstIdx(m.titles, "level", "j") = 0
             /\ ~NonEmpty(AnalyticChoice(last))
             /\ j > 0
             /\ j = FirstIdx(m.titles, "level", "m"))
                => /\ citation.title = Str(AllText(m.titles[j]))
                   /\ citation.proceedings.isNone

\* C10 witness: a book, with no analytic section and a monogr section
\* holding only a title of level m; the record is emitted with the title
\* and without venue.
C10_Witness ==
    /\ Processed
    /\ last.analytic = <<>>
    /\ last.monogr = <<Monogr(<<Title("", "m", TextAB)>>, <<>>)>>
    /\ citation.title = Str(<<"a", "b">>)
    /\ citation.proceedings = None
    /\ citations = <<citation>>

\* the date element the year is read from: the first one marked as
\* published, else the first one
SelectedDate(im) ==
    LET j == FirstIdx(im.dates, "type", "published")
    IN  IF j > 0 THEN im.dates[j] ELSE im.dates[1]

\* the integer the leading 4 characters of the 'when' attribute form,
\* NoYear when the attribute is absent or they form none
WhenYear(d) == IF d.when.isNone THEN NoYear ELSE PyInt(Take(d.when.s, 4))

\* the first 19xx or 20xx year in the trimmed own text of the date element
TextYear(d) ==
    IF Len(Strip(d.content.text)) > 0
    THEN re_search_year(Strip(d.content.text))
    ELSE NoYear

\* C6: when the leading 4 characters of the 'when' attribute of the
\* selected date element parse as an integer, the year is that integer,
\* whatever the visible text says; the year found in the visible text is
\* used only when the attribute is absent or does not parse.
C6_WhenAttributePreferred ==
    (Processed /\ last.imprint # <<>>) =>
        LET im == last.imprint[1]
        IN  IF im.dates = <<>> THEN citation.year = NoYear
            ELSE LET d == SelectedDate(im)
                 IN  IF WhenYear(d).isNone THEN citation.year = TextYear(d)
                     ELSE citation.year = WhenYear(d)

\* C6 witness: the selected date element has an attribute that parses and
\* a visible text with another year; the emitted record has the year of
\* the attribute.
C6_Witness ==
    /\ Processed
    /\ last.imprint # <<>>
    /\ last.imprint[1].dates # <<>>
    /\ ~WhenYear(SelectedDate(last.imprint[1])).isNone
    /\ ~TextYear(SelectedDate(last.imprint[1])).isNone
    /\ TextYear(SelectedDate(last.imprint[1]))
          # WhenYear(SelectedDate(last.imprint[1]))
    /\ citation.year = WhenYear(SelectedDate(last.imprint[1]))
    /\ citations = <<citation>>

\* C7: in every emitted record the year is absent or a four-digit integer.
C7_YearIsFourDigits ==
    \A j \in DOMAIN citations :
        citations[j].year.isNone \/ citations[j].year.n \in 1000..9999

\* an element has a non-empty trimmed own text
Present(c) == Strip(c.text) # <<>>

RECURSIVE SpaceJoined(_)
SpaceJoined(names) ==
    IF Len(names) = 0 THEN <<>>
    ELSE IF Len(names) = 1 THEN names[1]
    ELSE SpaceJoined(SubSeq(names, 1, Len(names) - 1))
             \o <<" ">> \o names[Len(names)]

\* the display name of one author entry, as a list of 0 or 1 names
DisplayName(a) ==
    IF a.persName = <<>> THEN <<>>
    ELSE LET p     == a.persName[1]
             gs    == SelectSeq(p.forenames, Present)
             given == [j \in 1..Len(gs) |-> Strip(gs[j].text)]
             fam   == IF p.surname = <<>> THEN <<>>
                      ELSE Strip(p.surname[1].text)
         IN  IF fam = <<>> THEN <<>>
             ELSE IF given = <<>> THEN <<fam>>
             ELSE <<SpaceJoined(given) \o <<" ">> \o fam>>

RECURSIVE DisplayNames(_)
DisplayNames(as) ==
    IF as = <<>> THEN <<>>
    ELSE DisplayNames(SubSeq(as, 1, Len(as) - 1))
             \o DisplayName(as[Len(as)])

\* C9: the authors list is, for the author entries of the analytic
\* section in document order, the given names joined by one space and
\* followed by the family name, or the family name alone, or nothing when
\* the entry has no family name; entries are neither sorted nor merged,
\* and the list is no longer than the number of author entries.
C9_AuthorList ==
    Processed =>
        IF last.analytic = <<>> THEN citation.authors = <<>>
        ELSE /\ citation.authors = DisplayNames(last.analytic[1].authors)
             /\ Len(citation.authors) <= Len(last.analytic[1].authors)

\* C9 witness: two identical author entries, given name and family name,
\* give two identical names in the emitted record.
C9_Witness ==
    /\ Processed
    /\ last.analytic # <<>>
    /\ last.analytic[1].authors = <<AuthorAS, AuthorAS>>
    /\ citation.authors = << <<"A", " ", "S">>, <<"A", " ", "S">> >>
    /\ citations = <<citation>>

====
